---------------------------- MODULE Spec2Model ----------------------------
(***************************************************************************)
(* LocationService (src/CaravanMobile/src/services/location/               *)
(* locationService.ts): the tracking lifecycle, the accuracy and distance  *)
(* filters, and the update queue with its sequential flush to the remote   *)
(* sink (ApiClient.updateLocation).                                        *)
(*                                                                         *)
(* JavaScript runs the service on one event loop: an async method runs     *)
(* without interruption from its call (or from the resolution of the       *)
(* promise it awaits) to its next await on the platform or on the network. *)
(* Each action below is one such run.                                      *)
(***************************************************************************)
EXTENDS Integers, Sequences, FiniteSets

VARIABLES
    isTracking,           \* LocationService.isTracking
    locationSubscription, \* LocationService.locationSubscription (0: null)
    lastSentLocation,     \* LocationService.lastSentLocation (NoLocation: null)
    updateQueue,          \* LocationService.updateQueue
    isFlushing,           \* LocationService.isFlushing
    flushes,              \* the flushQueue loops suspended at the sink call
    startCalls,           \* where each startTracking call stands
    fgPermission,         \* platform: foreground permission is granted
    watchers,             \* platform: the live watchPositionAsync subscriptions
    nextId,               \* the next position object the platform creates
    stopCalls,            \* the stopTracking calls made so far
    locationCall,         \* where the getCurrentLocation call stands
    acceptedLog,          \* history: the samples processLocation pushed
    nowLog,               \* history: the samples sendLocationNow was called with
    sinkLog,              \* history: the updateLocation calls and their results
    lastOp                \* history: the step that led to this state

vars == <<isTracking, locationSubscription, lastSentLocation, updateQueue,
          isFlushing, flushes, startCalls, fgPermission, watchers, nextId,
          stopCalls, locationCall,
          acceptedLog, nowLog, sinkLog, lastOp>>

serviceVars == <<isTracking, locationSubscription, lastSentLocation,
                 updateQueue, isFlushing>>

-----------------------------------------------------------------------------
(* Bounds of the model *)

\* startTracking calls, stopTracking calls and position readings in one run
\* of the model
MaxEvents == 4
\* answers of the sink in one run of the model
MaxAnswers == 4

-----------------------------------------------------------------------------
(* Constants of the program *)

MIN_DISTANCE_METERS == 30
ACCURACY_THRESHOLD == 5
QUEUE_LIMIT == 10
QUEUE_KEEP == 5
EARTH_RADIUS_KM == 6371
\* Math.PI in thousandths
PI_MILLI == 3142
\* the accuracy of a reading that reports none (accuracy: number | null)
NullAccuracy == -1

-----------------------------------------------------------------------------
(* Position samples *)

\* What the position source can report.  Latitudes are in units of 0.0001
\* degree north of 40.0000 on the meridian -75.0000 (40.0000, 40.0002 and
\* 40.0004); the accuracy is at the threshold, above it, or not reported.
Readings ==
    {[lat |-> 0, acc |-> ACCURACY_THRESHOLD],
     [lat |-> 2, acc |-> ACCURACY_THRESHOLD],
     [lat |-> 4, acc |-> NullAccuracy],
     [lat |-> 4, acc |-> ACCURACY_THRESHOLD + 1]}

\* The value of lastSentLocation before anything was sent (null).
NoLocation == [id |-> 0, lat |-> 0, acc |-> NullAccuracy, src |-> "none"]

\* A LocationData object; id is the object's identity and src the method
\* that built it.
Sample(id, r, src) == [id |-> id, lat |-> r.lat, acc |-> r.acc, src |-> src]

Abs(x) == IF x < 0 THEN -x ELSE x

\* calculateDistance, in millimetres.  Both points lie on one meridian, so
\* a = sin^2(dphi/2), c = |dphi| and the result is R * |dphi| * PI / 180.
calculateDistance(lat1, lat2) ==
    (EARTH_RADIUS_KM * PI_MILLI * Abs(lat2 - lat1)) \div 1800

\* hasLocationChangedSignificantly comparing the distance, in millimetres,
\* with the threshold in metres.
hasLocationChangedSignificantlyWrongUnit(newLocation) ==
    IF lastSentLocation = NoLocation
    THEN TRUE
    ELSE calculateDistance(lastSentLocation.lat, newLocation.lat)
            >= MIN_DISTANCE_METERS

hasLocationChangedSignificantly(newLocation) ==
    IF lastSentLocation = NoLocation
    THEN TRUE
    ELSE calculateDistance(lastSentLocation.lat, newLocation.lat)
            >= MIN_DISTANCE_METERS * 1000

-----------------------------------------------------------------------------
(* flushQueue *)

\* Array.prototype.shift: removes the first element, if there is one.
Shift(q) == IF Len(q) > 0 THEN Tail(q) ELSE q

\* Array.prototype.slice(-n): the last n elements.
SliceLast(q, n) ==
    IF Len(q) <= n THEN q ELSE SubSeq(q, Len(q) - n + 1, Len(q))

Without(s, i) == SubSeq(s, 1, i - 1) \o SubSeq(s, i + 1, Len(s))

\* The loop of flushQueue from its `while` test on queue q to the next await
\* of the sink, or to the `finally` when q is empty.  owner is the
\* startTracking call that awaits this flush (0: none), others are the
\* other suspended loops, log is the history of sink calls.
FlushLoop(q, owner, others, log) ==
    /\ updateQueue' = q
    /\ IF Len(q) > 0
       THEN /\ isFlushing' = TRUE
            /\ flushes' = Append(others, [location |-> q[1], owner |-> owner,
                                          call |-> Len(log) + 1])
            /\ sinkLog' = Append(log, [loc |-> q[1], res |-> "pending"])
       ELSE /\ isFlushing' = FALSE
            /\ flushes' = others
            /\ sinkLog' = log

\* flushQueue without its isFlushing test.
flushQueueUnguarded(q, owner) == FlushLoop(q, owner, flushes, sinkLog)

\* flushQueue, called with the queue q its caller has just built.
flushQueue(q, owner) ==
    IF isFlushing
    THEN /\ updateQueue' = q
         /\ UNCHANGED <<isFlushing, flushes, sinkLog>>
    ELSE FlushLoop(q, owner, flushes, sinkLog)

\* The await of flushQueue(q) suspends its caller on the sink.
FlushSuspends(q) == ~isFlushing /\ Len(q) > 0

\* The distance filter measuring from the last queued sample while nothing
\* has been sent.
AcceptsFromLastQueued(location) ==
    LET base == IF lastSentLocation # NoLocation THEN lastSentLocation
                ELSE IF Len(updateQueue) > 0 THEN updateQueue[Len(updateQueue)]
                ELSE NoLocation
    IN  \/ base = NoLocation
        \/ calculateDistance(base.lat, location.lat)
              >= MIN_DISTANCE_METERS * 1000

\* processLocation accepts the sample.
Accepts(location) ==
    ~(lastSentLocation # NoLocation /\ ~hasLocationChangedSignificantly(location))

\* processLocation pushing the sample without the call of flushQueue.
processLocationWithoutFlush(location, owner) ==
    IF Accepts(location)
    THEN /\ updateQueue' = Append(updateQueue, location)
         /\ acceptedLog' = Append(acceptedLog, location)
         /\ UNCHANGED <<isFlushing, flushes, sinkLog>>
    ELSE UNCHANGED <<updateQueue, isFlushing, flushes, sinkLog, acceptedLog>>

\* processLocation returning, as flushQueue does, when a flush is in
\* progress: the sample is accepted but not queued.
processLocationSkipsWhileFlushing(location, owner) ==
    IF Accepts(location)
    THEN /\ IF isFlushing
            THEN UNCHANGED <<updateQueue, isFlushing, flushes, sinkLog>>
            ELSE flushQueue(Append(updateQueue, location), owner)
         /\ acceptedLog' = Append(acceptedLog, location)
    ELSE UNCHANGED <<updateQueue, isFlushing, flushes, sinkLog, acceptedLog>>

\* processLocation putting the sample at the front of the queue.
processLocationUnshift(location, owner) ==
    IF Accepts(location)
    THEN /\ flushQueue(<<location>> \o updateQueue, owner)
         /\ acceptedLog' = Append(acceptedLog, location)
    ELSE UNCHANGED <<updateQueue, isFlushing, flushes, sinkLog, acceptedLog>>

\* processLocation: the distance filter, the push and the flush.
processLocation(location, owner) ==
    IF Accepts(location)
    THEN /\ flushQueue(Append(updateQueue, location), owner)
         /\ acceptedLog' = Append(acceptedLog, location)
    ELSE UNCHANGED <<updateQueue, isFlushing, flushes, sinkLog, acceptedLog>>

-----------------------------------------------------------------------------
(* The initial states *)

Calls == 1 .. MaxEvents

\* The startTracking, stopTracking and getCurrentLocation calls made and
\* the readings taken.
Events ==
    Cardinality({k \in Calls : startCalls[k] # "idle"}) + stopCalls + (nextId - 1)
        + (IF locationCall = "idle" THEN 0 ELSE 1)

Op(op, loc, res) == [op |-> op, loc |-> loc, res |-> res]

\* The service as constructed, on a device that has not granted permission.
Init ==
    /\ isTracking = FALSE
    /\ locationSubscription = 0
    /\ lastSentLocation = NoLocation
    /\ updateQueue = <<>>
    /\ isFlushing = FALSE
    /\ flushes = <<>>
    /\ startCalls = [k \in Calls |-> "idle"]
    /\ fgPermission = FALSE
    /\ watchers = {}
    /\ nextId = 1
    /\ stopCalls = 0
    /\ locationCall = "idle"
    /\ acceptedLog = <<>>
    /\ nowLog = <<>>
    /\ sinkLog = <<>>
    /\ lastOp = Op("init", NoLocation, "")

\* The i-th sample of an outage: a reading taken at rest.
BacklogSample(i) ==
    [id |-> 100 + i, lat |-> 0, acc |-> ACCURACY_THRESHOLD,
     src |-> IF i = 1 THEN "startTracking" ELSE "handleLocationUpdate"]

\* The service after an outage: the first startTracking call returned true,
\* nothing was ever sent (lastSentLocation is null, so every sample passed
\* the distance filter), and each of the QUEUE_LIMIT flushes stopped on a
\* failure for the head.  A foreground permission granted once may have
\* lapsed since.  The histories keep the last two sink calls of the outage.
InitBacklog ==
    /\ isTracking = TRUE
    /\ locationSubscription = 1
    /\ lastSentLocation = NoLocation
    /\ updateQueue = [i \in 1 .. QUEUE_LIMIT |-> BacklogSample(i)]
    /\ isFlushing = FALSE
    /\ flushes = <<>>
    /\ startCalls = [k \in Calls |-> IF k = 1 THEN "true" ELSE "idle"]
    /\ fgPermission \in BOOLEAN
    /\ watchers = {1}
    /\ nextId = 1
    /\ stopCalls = 0
    /\ locationCall = "idle"
    /\ acceptedLog = <<>>
    /\ nowLog = <<>>
    /\ sinkLog = [c \in 1 .. 2 |-> [loc |-> BacklogSample(1), res |-> "error"]]
    /\ lastOp = Op("sinkReturns", BacklogSample(1), "error")

-----------------------------------------------------------------------------
(* startTracking *)

queueVars == <<lastSentLocation, updateQueue, isFlushing, flushes,
               acceptedLog, nowLog, sinkLog>>

\* startTracking without its isTracking test.
StartTrackingUnchecked(k) ==
    /\ startCalls[k] = "idle"
    /\ k > 1 => startCalls[k - 1] # "idle"
    /\ Events < MaxEvents
    /\ startCalls' = [startCalls EXCEPT ![k] = "hasPermission"]
    /\ lastOp' = Op("startTracking", NoLocation,
                  IF isTracking THEN "true" ELSE "")
    /\ UNCHANGED <<serviceVars, flushes, fgPermission, watchers, nextId,
                   stopCalls, locationCall, acceptedLog, nowLog, sinkLog>>

\* The call of startTracking, to its await of hasPermission.
StartTracking(k) ==
    /\ startCalls[k] = "idle"
    /\ k > 1 => startCalls[k - 1] # "idle"
    /\ Events < MaxEvents
    /\ startCalls' = [startCalls EXCEPT
                        ![k] = IF isTracking THEN "true" ELSE "hasPermission"]
    /\ lastOp' = Op("startTracking", NoLocation,
                  IF isTracking THEN "true" ELSE "")
    /\ UNCHANGED <<serviceVars, flushes, fgPermission, watchers, nextId,
                   stopCalls, locationCall, acceptedLog, nowLog, sinkLog>>

\* getForegroundPermissionsAsync resolves.
HasPermissionReturns(k) ==
    /\ startCalls[k] = "hasPermission"
    /\ startCalls' = [startCalls EXCEPT
                        ![k] = IF fgPermission THEN "getCurrentPosition"
                                               ELSE "requestForeground"]
    /\ lastOp' = Op("hasPermission", NoLocation, "")
    /\ UNCHANGED <<serviceVars, flushes, fgPermission, watchers, nextId,
                   stopCalls, locationCall, acceptedLog, nowLog, sinkLog>>

\* requestPermissions going on to the background request whatever the
\* foreground status is.
RequestForegroundUnchecked(k, granted) ==
    /\ startCalls[k] = "requestForeground"
    /\ fgPermission' = (fgPermission \/ granted)
    /\ startCalls' = [startCalls EXCEPT ![k] = "requestBackground"]
    /\ lastOp' = Op("requestForeground", NoLocation,
                  IF granted THEN "granted" ELSE "denied")
    /\ UNCHANGED <<serviceVars, flushes, watchers, nextId, stopCalls,
                   locationCall,
                   acceptedLog, nowLog, sinkLog>>

\* requestForegroundPermissionsAsync resolves (granted) or is denied or
\* throws (not granted): requestPermissions returns false for both.
RequestForegroundReturns(k, granted) ==
    /\ startCalls[k] = "requestForeground"
    /\ fgPermission' = (fgPermission \/ granted)
    /\ startCalls' = [startCalls EXCEPT
                        ![k] = IF granted THEN "requestBackground" ELSE "false"]
    /\ lastOp' = Op("requestForeground", NoLocation,
                  IF granted THEN "granted" ELSE "denied")
    /\ UNCHANGED <<serviceVars, flushes, watchers, nextId, stopCalls,
                   locationCall,
                   acceptedLog, nowLog, sinkLog>>

\* requestBackgroundPermissionsAsync resolves with any status, or throws:
\* the catch of requestPermissions then returns false.
RequestBackgroundReturns(k, throws) ==
    /\ startCalls[k] = "requestBackground"
    /\ startCalls' = [startCalls EXCEPT
                        ![k] = IF throws THEN "false" ELSE "getCurrentPosition"]
    /\ lastOp' = Op("requestBackground", NoLocation, "")
    /\ UNCHANGED <<serviceVars, flushes, fgPermission, watchers, nextId,
                   stopCalls, locationCall, acceptedLog, nowLog, sinkLog>>

\* getCurrentPositionAsync resolves with reading r: the sample goes to
\* processLocation, and the call then awaits the flush or watchPositionAsync.
GetCurrentPositionReturns(k, r) ==
    /\ startCalls[k] = "getCurrentPosition"
    /\ Events < MaxEvents
    /\ LET location == Sample(nextId, r, "startTracking") IN
        /\ processLocation(location, k)
        /\ startCalls' = [startCalls EXCEPT
              ![k] = IF Accepts(location)
                        /\ FlushSuspends(Append(updateQueue, location))
                     THEN "flushQueue" ELSE "watchPosition"]
        /\ lastOp' = Op("processLocation", location, "")
    /\ nextId' = nextId + 1
    /\ UNCHANGED <<isTracking, locationSubscription, lastSentLocation,
                   fgPermission, watchers, stopCalls, locationCall, nowLog>>

\* getCurrentPositionAsync throws: the catch returns false.
GetCurrentPositionFails(k) ==
    /\ startCalls[k] = "getCurrentPosition"
    /\ startCalls' = [startCalls EXCEPT ![k] = "false"]
    /\ lastOp' = Op("getCurrentPosition", NoLocation, "throws")
    /\ UNCHANGED <<serviceVars, flushes, fgPermission, watchers, nextId,
                   stopCalls, locationCall, acceptedLog, nowLog, sinkLog>>

\* startTracking setting isTracking before it awaits watchPositionAsync.
WatchPositionMarksFirst(k, ok) ==
    /\ startCalls[k] = "watchPosition"
    /\ isTracking' = TRUE
    /\ IF ok
       THEN /\ locationSubscription' = k
            /\ watchers' = watchers \cup {k}
            /\ startCalls' = [startCalls EXCEPT ![k] = "true"]
       ELSE /\ startCalls' = [startCalls EXCEPT ![k] = "false"]
            /\ UNCHANGED <<locationSubscription, watchers>>
    /\ lastOp' = Op("watchPosition", NoLocation, IF ok THEN "" ELSE "throws")
    /\ UNCHANGED <<queueVars, fgPermission, nextId, stopCalls, locationCall>>

\* watchPositionAsync resolves with a subscription (ok) or throws.
WatchPositionReturns(k, ok) ==
    /\ startCalls[k] = "watchPosition"
    /\ IF ok
       THEN /\ locationSubscription' = k
            /\ watchers' = watchers \cup {k}
            /\ isTracking' = TRUE
            /\ startCalls' = [startCalls EXCEPT ![k] = "true"]
       ELSE /\ startCalls' = [startCalls EXCEPT ![k] = "false"]
            /\ UNCHANGED <<locationSubscription, watchers, isTracking>>
    /\ lastOp' = Op("watchPosition", NoLocation, IF ok THEN "" ELSE "throws")
    /\ UNCHANGED <<queueVars, fgPermission, nextId, stopCalls, locationCall>>

-----------------------------------------------------------------------------
(* stopTracking *)

\* stopTracking abandoning the flush in progress.
StopTrackingCancelsFlush ==
    /\ Events < MaxEvents
    /\ stopCalls' = stopCalls + 1
    /\ IF ~isTracking
       THEN UNCHANGED <<isTracking, locationSubscription, watchers, isFlushing,
                        flushes>>
       ELSE /\ watchers' = watchers \ {locationSubscription}
            /\ locationSubscription' = 0
            /\ isTracking' = FALSE
            /\ isFlushing' = FALSE
            /\ flushes' = <<>>
    /\ lastOp' = Op("stopTracking", NoLocation, "")
    /\ UNCHANGED <<lastSentLocation, updateQueue, acceptedLog, nowLog,
                   sinkLog, startCalls, fgPermission, nextId, locationCall>>

\* stopTracking emptying the queue of a session it ends.
StopTrackingClearsQueue ==
    /\ Events < MaxEvents
    /\ stopCalls' = stopCalls + 1
    /\ IF ~isTracking
       THEN UNCHANGED <<isTracking, locationSubscription, watchers, updateQueue>>
       ELSE /\ watchers' = watchers \ {locationSubscription}
            /\ locationSubscription' = 0
            /\ isTracking' = FALSE
            /\ updateQueue' = <<>>
    /\ lastOp' = Op("stopTracking", NoLocation, "")
    /\ UNCHANGED <<lastSentLocation, isFlushing, flushes, acceptedLog, nowLog,
                   sinkLog, startCalls, fgPermission, nextId, locationCall>>

\* stopTracking removing the subscription without clearing the handle.
StopTrackingKeepsHandle ==
    /\ Events < MaxEvents
    /\ stopCalls' = stopCalls + 1
    /\ IF ~isTracking
       THEN UNCHANGED <<isTracking, locationSubscription, watchers>>
       ELSE /\ watchers' = watchers \ {locationSubscription}
            /\ UNCHANGED locationSubscription
            /\ isTracking' = FALSE
    /\ lastOp' = Op("stopTracking", NoLocation, "")
    /\ UNCHANGED <<queueVars, startCalls, fgPermission, nextId, locationCall>>

\* stopTracking: nothing when not tracking; otherwise the subscription is
\* removed, the handle cleared and isTracking set to false.
StopTracking ==
    /\ Events < MaxEvents
    /\ stopCalls' = stopCalls + 1
    /\ IF ~isTracking
       THEN UNCHANGED <<isTracking, locationSubscription, watchers>>
       ELSE /\ IF locationSubscription # 0
               THEN /\ watchers' = watchers \ {locationSubscription}
                    /\ locationSubscription' = 0
               ELSE UNCHANGED <<locationSubscription, watchers>>
            /\ isTracking' = FALSE
    /\ lastOp' = Op("stopTracking", NoLocation, "")
    /\ UNCHANGED <<queueVars, startCalls, fgPermission, nextId, locationCall>>

-----------------------------------------------------------------------------
(* The subscription callback and the force-send *)

\* The accuracy test with the threshold of the comment on
\* ACCURACY_THRESHOLD (50 m).
PoorAccuracyFifty(acc) ==
    /\ acc # NullAccuracy
    /\ acc # 0
    /\ acc > 50

\* location.coords.accuracy && location.coords.accuracy > ACCURACY_THRESHOLD
PoorAccuracy(acc) ==
    /\ acc # NullAccuracy
    /\ acc # 0
    /\ acc > ACCURACY_THRESHOLD

\* A live subscription reports reading r.
HandleLocationUpdate(r) ==
    /\ watchers # {}
    /\ Events < MaxEvents
    /\ LET location == Sample(nextId, r, "handleLocationUpdate") IN
        /\ IF PoorAccuracy(r.acc)
           THEN /\ UNCHANGED <<updateQueue, isFlushing, flushes, sinkLog,
                               acceptedLog>>
                /\ lastOp' = Op("handleLocationUpdate", location, "skipped")
           ELSE /\ processLocation(location, 0)
                /\ lastOp' = Op("processLocation", location, "")
    /\ nextId' = nextId + 1
    /\ UNCHANGED <<isTracking, locationSubscription, lastSentLocation,
                   startCalls, fgPermission, watchers, stopCalls, locationCall,
                   nowLog>>

\* sendLocationNow pushing the sample at the end of the queue.
SendLocationNowPush(r) ==
    /\ isTracking
    /\ Events < MaxEvents
    /\ LET location == Sample(nextId, r, "sendLocationNow") IN
        /\ lastSentLocation' = location
        /\ flushQueue(Append(updateQueue, location), 0)
        /\ nowLog' = Append(nowLog, location)
        /\ lastOp' = Op("sendLocationNow", location, "")
    /\ nextId' = nextId + 1
    /\ UNCHANGED <<isTracking, locationSubscription, startCalls, fgPermission,
                   watchers, stopCalls, locationCall, acceptedLog>>

\* sendLocationNow, as handleAppStateChange calls it: when isActive() holds,
\* with the reading getCurrentLocation returned.
SendLocationNow(r) ==
    /\ isTracking
    /\ Events < MaxEvents
    /\ LET location == Sample(nextId, r, "sendLocationNow") IN
        /\ lastSentLocation' = location
        /\ flushQueue(<<location>> \o updateQueue, 0)
        /\ nowLog' = Append(nowLog, location)
        /\ lastOp' = Op("sendLocationNow", location, "")
    /\ nextId' = nextId + 1
    /\ UNCHANGED <<isTracking, locationSubscription, startCalls, fgPermission,
                   watchers, stopCalls, locationCall, acceptedLog>>

-----------------------------------------------------------------------------
(* getCurrentLocation *)

locationVars == <<serviceVars, flushes, startCalls, fgPermission, watchers,
                  stopCalls, acceptedLog, nowLog, sinkLog>>

\* A screen calls getCurrentLocation, which awaits hasPermission.
GetCurrentLocation ==
    /\ locationCall = "idle"
    /\ Events < MaxEvents
    /\ locationCall' = "hasPermission"
    /\ lastOp' = Op("getCurrentLocation", NoLocation, "")
    /\ UNCHANGED <<locationVars, nextId>>

\* getForegroundPermissionsAsync resolves: without the permission the call
\* returns null, with it the call awaits getCurrentPositionAsync.
LocationPermissionReturns ==
    /\ locationCall = "hasPermission"
    /\ locationCall' = IF fgPermission THEN "getCurrentPosition" ELSE "null"
    /\ lastOp' = Op("getCurrentLocation", NoLocation,
                  IF fgPermission THEN "" ELSE "null")
    /\ UNCHANGED <<locationVars, nextId>>

\* getCurrentLocation keeping the position it returns as lastSentLocation.
LocationPositionRecorded(r) ==
    /\ locationCall = "getCurrentPosition"
    /\ Events < MaxEvents
    /\ locationCall' = "sample"
    /\ lastSentLocation' = Sample(nextId, r, "getCurrentLocation")
    /\ lastOp' = Op("getCurrentLocation",
                  Sample(nextId, r, "getCurrentLocation"), "sample")
    /\ nextId' = nextId + 1
    /\ UNCHANGED <<isTracking, locationSubscription, updateQueue, isFlushing,
                   flushes, startCalls, fgPermission, watchers, stopCalls,
                   acceptedLog, nowLog, sinkLog>>

\* getCurrentPositionAsync resolves with reading r, which the call returns.
LocationPositionReturns(r) ==
    /\ locationCall = "getCurrentPosition"
    /\ Events < MaxEvents
    /\ locationCall' = "sample"
    /\ lastOp' = Op("getCurrentLocation",
                  Sample(nextId, r, "getCurrentLocation"), "sample")
    /\ nextId' = nextId + 1
    /\ UNCHANGED locationVars

\* getCurrentPositionAsync throws: the catch returns null.
LocationPositionFails ==
    /\ locationCall = "getCurrentPosition"
    /\ locationCall' = "null"
    /\ lastOp' = Op("getCurrentLocation", NoLocation, "throws")
    /\ UNCHANGED <<locationVars, nextId>>

-----------------------------------------------------------------------------
(* The sink answers *)

Outcomes == {"ok", "404", "error"}

\* The startTracking call that awaited the flush goes on when the loop ends.
Resume(owner, ended) ==
    IF ended /\ owner # 0
    THEN startCalls' = [startCalls EXCEPT ![owner] = "watchPosition"]
    ELSE UNCHANGED startCalls

\* updateLocation resolved: the sample becomes lastSentLocation, the head
\* of the queue is shifted out and the loop goes on.
OnSuccess(f, others, log) ==
    /\ lastSentLocation' = f.location
    /\ FlushLoop(Shift(updateQueue), f.owner, others, log)
    /\ Resume(f.owner, Len(Shift(updateQueue)) = 0)

\* The 404 branch returning from flushQueue, past the clearing of the
\* flag, when it has emptied the queue.
OnNotFoundLeavesFlag(f, others, log) ==
    /\ UNCHANGED lastSentLocation
    /\ IF Len(Shift(updateQueue)) > 0
       THEN FlushLoop(Shift(updateQueue), f.owner, others, log)
       ELSE /\ updateQueue' = Shift(updateQueue)
            /\ isFlushing' = TRUE
            /\ flushes' = others
            /\ sinkLog' = log
    /\ Resume(f.owner, Len(Shift(updateQueue)) = 0)

\* The 404 branch ending the loop as the other errors do.
OnNotFoundStops(f, others, log) ==
    /\ UNCHANGED <<lastSentLocation, updateQueue>>
    /\ isFlushing' = FALSE
    /\ flushes' = others
    /\ sinkLog' = log
    /\ Resume(f.owner, TRUE)

\* The 404 branch forgetting the sample the distance is measured from.
OnNotFoundClearsBaseline(f, others, log) ==
    /\ lastSentLocation' = NoLocation
    /\ FlushLoop(Shift(updateQueue), f.owner, others, log)
    /\ Resume(f.owner, Len(Shift(updateQueue)) = 0)

\* The 404 branch recording the discarded sample as sent.
OnNotFoundMarksSent(f, others, log) ==
    /\ lastSentLocation' = f.location
    /\ FlushLoop(Shift(updateQueue), f.owner, others, log)
    /\ Resume(f.owner, Len(Shift(updateQueue)) = 0)

\* updateLocation rejected with status 404: the head of the queue is
\* shifted out and the loop goes on.
OnNotFound(f, others, log) ==
    /\ UNCHANGED lastSentLocation
    /\ FlushLoop(Shift(updateQueue), f.owner, others, log)
    /\ Resume(f.owner, Len(Shift(updateQueue)) = 0)

\* The error branch throwing the error on to the caller of flushQueue:
\* the catch of startTracking then returns false.
OnErrorRethrows(f, others, log) ==
    /\ UNCHANGED lastSentLocation
    /\ updateQueue' = IF Len(updateQueue) > QUEUE_LIMIT
                      THEN SliceLast(updateQueue, QUEUE_KEEP)
                      ELSE updateQueue
    /\ isFlushing' = FALSE
    /\ flushes' = others
    /\ sinkLog' = log
    /\ IF f.owner # 0
       THEN startCalls' = [startCalls EXCEPT ![f.owner] = "false"]
       ELSE UNCHANGED startCalls

\* The error branch without the cut of the queue.
OnErrorNeverTrims(f, others, log) ==
    /\ UNCHANGED <<lastSentLocation, updateQueue>>
    /\ isFlushing' = FALSE
    /\ flushes' = others
    /\ sinkLog' = log
    /\ Resume(f.owner, TRUE)

\* The error branch calling the sink again with the same queue.
OnErrorRetries(f, others, log) ==
    /\ UNCHANGED lastSentLocation
    /\ FlushLoop(updateQueue, f.owner, others, log)
    /\ Resume(f.owner, Len(updateQueue) = 0)

\* The error branch dropping the failed sample and going on.
OnErrorSkips(f, others, log) ==
    /\ UNCHANGED lastSentLocation
    /\ FlushLoop(Shift(updateQueue), f.owner, others, log)
    /\ Resume(f.owner, Len(Shift(updateQueue)) = 0)

\* The error branch keeping the first QUEUE_KEEP entries (slice(0, 5)).
OnErrorKeepsOldest(f, others, log) ==
    /\ UNCHANGED lastSentLocation
    /\ updateQueue' = IF Len(updateQueue) > QUEUE_LIMIT
                      THEN SubSeq(updateQueue, 1, QUEUE_KEEP)
                      ELSE updateQueue
    /\ isFlushing' = FALSE
    /\ flushes' = others
    /\ sinkLog' = log
    /\ Resume(f.owner, TRUE)

\* updateLocation rejected with anything else: the queue is cut to its last
\* QUEUE_KEEP entries when it holds more than QUEUE_LIMIT, and the loop ends.
OnError(f, others, log) ==
    /\ UNCHANGED lastSentLocation
    /\ updateQueue' = IF Len(updateQueue) > QUEUE_LIMIT
                      THEN SliceLast(updateQueue, QUEUE_KEEP)
                      ELSE updateQueue
    /\ isFlushing' = FALSE
    /\ flushes' = others
    /\ sinkLog' = log
    /\ Resume(f.owner, TRUE)

\* The updateLocation calls that were answered.
Answers == Cardinality({c \in DOMAIN sinkLog : sinkLog[c].res # "pending"})

\* updateLocation answers the i-th suspended loop: the rest of the loop's
\* iteration, to its next await or to the finally.
UpdateLocationReturns(i, outcome) ==
    /\ i \in DOMAIN flushes
    /\ LET f == flushes[i]
           others == Without(flushes, i)
           log == [sinkLog EXCEPT ![f.call].res = outcome]
       IN
        /\ IF outcome = "ok" THEN OnSuccess(f, others, log)
           ELSE IF outcome = "404" THEN OnNotFound(f, others, log)
           ELSE OnError(f, others, log)
        /\ lastOp' = Op("sinkReturns", f.location, outcome)
    /\ UNCHANGED <<isTracking, locationSubscription, fgPermission, watchers,
                   nextId, stopCalls, locationCall, acceptedLog, nowLog>>

\* updateLocation answers, in a run with at most MaxAnswers answers.
SinkReturns(i, outcome) ==
    /\ Answers < MaxAnswers
    /\ UpdateLocationReturns(i, outcome)

-----------------------------------------------------------------------------
(* The specification *)

Next ==
    \/ \E k \in Calls : StartTracking(k)
    \/ \E k \in Calls : HasPermissionReturns(k)
    \/ \E k \in Calls, granted \in BOOLEAN : RequestForegroundReturns(k, granted)
    \/ \E k \in Calls, throws \in BOOLEAN : RequestBackgroundReturns(k, throws)
    \/ \E k \in Calls, r \in Readings : GetCurrentPositionReturns(k, r)
    \/ \E k \in Calls : GetCurrentPositionFails(k)
    \/ \E k \in Calls, ok \in BOOLEAN : WatchPositionReturns(k, ok)
    \/ StopTracking
    \/ \E r \in Readings : HandleLocationUpdate(r)
    \/ \E r \in Readings : SendLocationNow(r)
    \/ \E i \in DOMAIN flushes, outcome \in Outcomes : SinkReturns(i, outcome)

Spec == Init /\ [][Next]_vars

\* The service from the end of an outage.
SpecBacklog == InitBacklog /\ [][Next]_vars

\* The steps of the service when the sink answers every call it gets.
NextFair ==
    \/ \E k \in Calls : StartTracking(k)
    \/ \E k \in Calls : HasPermissionReturns(k)
    \/ \E k \in Calls, granted \in BOOLEAN : RequestForegroundReturns(k, granted)
    \/ \E k \in Calls, throws \in BOOLEAN : RequestBackgroundReturns(k, throws)
    \/ \E k \in Calls, r \in Readings : GetCurrentPositionReturns(k, r)
    \/ \E k \in Calls : GetCurrentPositionFails(k)
    \/ \E k \in Calls, ok \in BOOLEAN : WatchPositionReturns(k, ok)
    \/ StopTracking
    \/ \E r \in Readings : HandleLocationUpdate(r)
    \/ \E r \in Readings : SendLocationNow(r)
    \/ \E i \in Calls, outcome \in Outcomes : UpdateLocationReturns(i, outcome)

\* The steps of the service and of a screen that calls getCurrentLocation.
NextLocation ==
    \/ \E k \in Calls : StartTracking(k)
    \/ \E k \in Calls : HasPermissionReturns(k)
    \/ \E k \in Calls, granted \in BOOLEAN : RequestForegroundReturns(k, granted)
    \/ \E k \in Calls, throws \in BOOLEAN : RequestBackgroundReturns(k, throws)
    \/ \E k \in Calls, r \in Readings : GetCurrentPositionReturns(k, r)
    \/ \E k \in Calls : GetCurrentPositionFails(k)
    \/ \E k \in Calls, ok \in BOOLEAN : WatchPositionReturns(k, ok)
    \/ StopTracking
    \/ \E r \in Readings : HandleLocationUpdate(r)
    \/ \E r \in Readings : SendLocationNow(r)
    \/ \E i \in DOMAIN flushes, outcome \in Outcomes : SinkReturns(i, outcome)
    \/ GetCurrentLocation
    \/ LocationPermissionReturns
    \/ \E r \in Readings : LocationPositionReturns(r)
    \/ LocationPositionFails

SpecLocation == Init /\ [][NextLocation]_vars

\* Every updateLocation call returns: the promise the loop awaits is
\* settled by the HTTP client, with a response or with an error.
SinkFairness ==
    WF_vars(\E i \in Calls, outcome \in Outcomes :
                UpdateLocationReturns(i, outcome))

\* The service after a first startTracking call that returned false
\* because the user denied the foreground permission.
InitDenied ==
    /\ isTracking = FALSE
    /\ locationSubscription = 0
    /\ lastSentLocation = NoLocation
    /\ updateQueue = <<>>
    /\ isFlushing = FALSE
    /\ flushes = <<>>
    /\ startCalls = [k \in Calls |-> IF k = 1 THEN "false" ELSE "idle"]
    /\ fgPermission = FALSE
    /\ watchers = {}
    /\ nextId = 1
    /\ stopCalls = 0
    /\ locationCall = "idle"
    /\ acceptedLog = <<>>
    /\ nowLog = <<>>
    /\ sinkLog = <<>>
    /\ lastOp = Op("requestForeground", NoLocation, "denied")

SpecFair == InitDenied /\ [][NextFair]_vars /\ SinkFairness

-----------------------------------------------------------------------------
(* Properties *)

Range(s) == {s[i] : i \in DOMAIN s}

Last(s) == s[Len(s)]

IsPrefix(a, b) == Len(a) <= Len(b) /\ \A i \in DOMAIN a : a[i] = b[i]

PositionIn(log, x) == CHOOSE i \in DOMAIN log : log[i] = x

\* The samples the sink was called with, in the order of the calls.
SentLocations == [c \in DOMAIN sinkLog |-> sinkLog[c].loc]

\* No call of the sink has failed.
NoFailure == \A c \in DOMAIN sinkLog : sinkLog[c].res \in {"pending", "ok"}

\* No call of the sink has succeeded.
NoSuccess == \A c \in DOMAIN sinkLog : sinkLog[c].res # "ok"

\* The step is the answer `res` of the sink.
SinkAnswered(res) == lastOp'.op = "sinkReturns" /\ lastOp'.res = res

\* The distance of two samples is at least 30 m.
ThirtyMetresApart(a, b) == calculateDistance(a.lat, b.lat) >= 30 * 1000

\* C1: while sendLocationNow has not been called, the sink is called in
\* the order in which processLocation accepted the samples (a retry may
\* repeat a sample, never go back); when, besides, no call has failed, the
\* calls are exactly the accepted samples in their order, and once the flush
\* has ended all of them were sent and the queue is empty.
FifoDelivery ==
    nowLog = <<>> =>
        /\ \A c \in DOMAIN sinkLog : sinkLog[c].loc \in Range(acceptedLog)
        /\ \A c, d \in DOMAIN sinkLog :
              c < d => PositionIn(acceptedLog, sinkLog[c].loc)
                          <= PositionIn(acceptedLog, sinkLog[d].loc)
        /\ NoFailure =>
              /\ IsPrefix(SentLocations, acceptedLog)
              /\ ~isFlushing =>
                    (updateQueue = <<>> /\ SentLocations = acceptedLog)

\* Three samples were accepted, sent in that order, and the queue is empty.
FifoDeliveryWitness ==
    /\ nowLog = <<>>
    /\ Len(acceptedLog) = 3
    /\ SentLocations = acceptedLog
    /\ \A c \in DOMAIN sinkLog : sinkLog[c].res = "ok"
    /\ updateQueue = <<>>
    /\ ~isFlushing

\* The step calls flushQueue while a flush is in progress.
ReentrantCall ==
    isFlushing /\ (acceptedLog' # acceptedLog \/ nowLog' # nowLog)

\* C2: at most one flush loop waits on the sink, and a flushQueue call made
\* while isFlushing is true calls no sink and leaves the queue as its caller
\* built it.
SingleFlush ==
    /\ [](Len(flushes) <= 1)
    /\ [][ReentrantCall =>
            /\ flushes' = flushes
            /\ sinkLog' = sinkLog
            /\ isFlushing'
            /\ updateQueue' = IF acceptedLog' # acceptedLog
                              THEN Append(updateQueue, Last(acceptedLog'))
                              ELSE <<Last(nowLog')>> \o updateQueue]_vars

\* processLocation has queued a sample behind the one a flush is sending.
SingleFlushWitness ==
    /\ isFlushing
    /\ Len(flushes) = 1
    /\ lastOp.op = "processLocation"
    /\ Len(updateQueue) >= 2
    /\ Last(updateQueue) = lastOp.loc
    /\ flushes[1].location # lastOp.loc

\* C3: when the sink fails with an error other than 404 and the queue holds
\* at most 10 samples, the flush ends, the queue is unchanged and still
\* holds the failed sample, lastSentLocation is unchanged and no further
\* sink call is made.
TransientFailureHalt ==
    [][(SinkAnswered("error") /\ Len(updateQueue) <= 10) =>
            /\ updateQueue' = updateQueue
            /\ lastOp'.loc \in Range(updateQueue')
            /\ lastSentLocation' = lastSentLocation
            /\ ~isFlushing'
            /\ flushes' = <<>>
            /\ Len(sinkLog') = Len(sinkLog)]_vars

\* The sink failed for A, the head of [A, B], and B was not sent.
TransientFailureHaltWitness ==
    /\ lastOp.op = "sinkReturns"
    /\ lastOp.res = "error"
    /\ Len(updateQueue) = 2
    /\ updateQueue[1] = lastOp.loc
    /\ Last(sinkLog) = [loc |-> updateQueue[1], res |-> "error"]
    /\ \A c \in DOMAIN sinkLog : sinkLog[c].loc # updateQueue[2]
    /\ ~isFlushing

\* C4: when the sink answers 404 for the head of the queue, that sample is
\* removed and is not in the queue any more, and the same flush goes on:
\* it calls the sink for the next sample, or ends when there is none.
PermanentFailureSkip ==
    [][(/\ SinkAnswered("404")
        /\ updateQueue # <<>>
        /\ updateQueue[1] = lastOp'.loc) =>
            /\ updateQueue' = Tail(updateQueue)
            /\ lastOp'.loc \notin Range(updateQueue')
            /\ IF Tail(updateQueue) = <<>>
               THEN /\ ~isFlushing'
                    /\ flushes' = <<>>
                    /\ Len(sinkLog') = Len(sinkLog)
               ELSE /\ isFlushing'
                    /\ Len(flushes') = 1
                    /\ flushes'[1].location = updateQueue[2]
                    /\ Len(sinkLog') = Len(sinkLog) + 1
                    /\ Last(sinkLog') =
                          [loc |-> updateQueue[2], res |-> "pending"]]_vars

\* One flush of [A, B]: 404 for A, success for B, the queue is empty.
PermanentFailureSkipWitness ==
    /\ nowLog = <<>>
    /\ Len(acceptedLog) = 2
    /\ sinkLog = <<[loc |-> acceptedLog[1], res |-> "404"],
                   [loc |-> acceptedLog[2], res |-> "ok"]>>
    /\ updateQueue = <<>>
    /\ ~isFlushing

\* C5: when a flush stops on an error other than 404 with more than 10
\* samples queued, the queue becomes its last 5 entries in their order and
\* the head is among the discarded ones; with 10 or fewer it is unchanged.
QueueOverflowTrim ==
    [][SinkAnswered("error") =>
            IF Len(updateQueue) > 10
            THEN /\ Len(updateQueue') = 5
                 /\ \A j \in 1 .. 5 :
                       updateQueue'[j] = updateQueue[Len(updateQueue) - 5 + j]
                 /\ updateQueue[1] \notin Range(updateQueue')
            ELSE updateQueue' = updateQueue]_vars

\* A flush has stopped on an error and the queue, which no success and no
\* 404 has shortened, holds 5 samples.
QueueOverflowTrimWitness ==
    /\ lastOp.op = "sinkReturns"
    /\ lastOp.res = "error"
    /\ \A c \in DOMAIN sinkLog : sinkLog[c].res = "error"
    /\ Len(sinkLog) > 2
    /\ Len(updateQueue) = 5
    /\ lastOp.loc \notin Range(updateQueue)

\* C6: sendLocationNow(X) puts X at the front of the queue and makes it
\* lastSentLocation in the same step, whatever lastSentLocation was; when
\* no flush is in progress, the flush it starts calls the sink with X first.
SendLocationNowPriority ==
    [][nowLog' # nowLog =>
            LET X == Last(nowLog') IN
            /\ updateQueue' = <<X>> \o updateQueue
            /\ lastSentLocation' = X
            /\ IF isFlushing
               THEN flushes' = flushes /\ sinkLog' = sinkLog
               ELSE /\ Len(flushes') = 1
                    /\ flushes'[1].location = X
                    /\ sinkLog' = Append(sinkLog,
                                         [loc |-> X, res |-> "pending"])]_vars

\* sendLocationNow(X) on the queue [A, B]: the queue is [X, A, B],
\* lastSentLocation is X and the sink is being called with X.
SendLocationNowPriorityWitness ==
    /\ lastOp.op = "sendLocationNow"
    /\ Len(updateQueue) = 3
    /\ updateQueue[1] = lastOp.loc
    /\ {updateQueue[2], updateQueue[3]} \subseteq Range(acceptedLog)
    /\ lastSentLocation = lastOp.loc
    /\ Len(flushes) = 1
    /\ flushes[1].location = lastOp.loc

\* C7: processLocation appends its sample to the queue if and only if
\* lastSentLocation is null or at least 30 m away; a rejected sample leaves
\* the queue, lastSentLocation and the flush as they were and calls no sink.
AcceptanceRule ==
    [][lastOp'.op = "processLocation" =>
            LET sample == lastOp'.loc
                passes == \/ lastSentLocation = NoLocation
                          \/ ThirtyMetresApart(lastSentLocation, sample)
            IN  /\ passes <=> (updateQueue' = Append(updateQueue, sample))
                /\ ~passes => UNCHANGED <<updateQueue, lastSentLocation,
                                          isFlushing, flushes, sinkLog>>]_vars

\* processLocation has rejected a sample less than 30 m from
\* lastSentLocation.
AcceptanceRuleWitness ==
    /\ lastOp.op = "processLocation"
    /\ lastSentLocation # NoLocation
    /\ ~ThirtyMetresApart(lastSentLocation, lastOp.loc)
    /\ lastOp.loc \notin Range(updateQueue)
    /\ lastOp.loc \notin Range(acceptedLog)

\* C8, as stated: no sample whose accuracy exceeds ACCURACY_THRESHOLD is in
\* the queue, whichever way it came in.
AccuracyFilterOnEveryPath ==
    \A i \in DOMAIN updateQueue : updateQueue[i].acc <= ACCURACY_THRESHOLD

\* C8, amended: no sample of the subscription callback whose accuracy
\* exceeds ACCURACY_THRESHOLD is ever accepted or queued.
AccuracyFilterOnCallback ==
    \A sample \in Range(updateQueue) \cup Range(acceptedLog) :
        sample.src = "handleLocationUpdate" =>
            sample.acc <= ACCURACY_THRESHOLD

\* The callback has dropped a sample of poor accuracy that the distance
\* filter would have let through.
AccuracyFilterOnCallbackWitness ==
    /\ lastOp.op = "handleLocationUpdate"
    /\ lastOp.loc.acc > ACCURACY_THRESHOLD
    /\ \/ lastSentLocation = NoLocation
       \/ ThirtyMetresApart(lastSentLocation, lastOp.loc)
    /\ lastOp.loc \notin Range(updateQueue)

\* C9, as stated: lastSentLocation changes only in a step that puts the new
\* value into the queue.
LastSentChangesOnAcceptance ==
    [][lastSentLocation' # lastSentLocation =>
            /\ lastSentLocation' \in Range(updateQueue')
            /\ lastSentLocation' \notin Range(updateQueue)]_vars

\* C9, amended: lastSentLocation changes only when the sink answers success
\* (to the sample of that call) or when sendLocationNow is called (to its
\* argument); processLocation and failed deliveries never change it.
LastSentChangesOnDelivery ==
    [][lastSentLocation' # lastSentLocation =>
            /\ lastSentLocation' = lastOp'.loc
            /\ \/ SinkAnswered("ok")
               \/ lastOp'.op = "sendLocationNow"]_vars

\* A sample that processLocation accepted became lastSentLocation when the
\* sink answered success for it.
LastSentChangesOnDeliveryWitness ==
    /\ lastOp.op = "sinkReturns"
    /\ lastOp.res = "ok"
    /\ lastSentLocation = lastOp.loc
    /\ lastOp.loc \in Range(acceptedLog)
    /\ lastOp.loc \notin Range(updateQueue)

\* The session is fresh: sendLocationNow was not called and no delivery
\* has succeeded.
NothingSent == nowLog = <<>> /\ NoSuccess

\* C10, as stated: with S1 accepted and still queued in a fresh session, a
\* sample less than 30 m from S1 is rejected.
NearSampleRejectedBeforeDelivery ==
    [][(/\ NothingSent
        /\ Len(acceptedLog) = 1
        /\ updateQueue = acceptedLog
        /\ lastOp'.op = "processLocation"
        /\ ~ThirtyMetresApart(acceptedLog[1], lastOp'.loc)) =>
            updateQueue' = updateQueue]_vars

\* C10, amended: in a fresh session, while no delivery has succeeded,
\* lastSentLocation is null and processLocation accepts every sample, also
\* one less than 30 m from S1.
EverySampleAcceptedBeforeDelivery ==
    /\ [](NothingSent => lastSentLocation = NoLocation)
    /\ [][(NothingSent /\ lastOp'.op = "processLocation") =>
            updateQueue' = Append(updateQueue, lastOp'.loc)]_vars

\* S1, a sample less than 30 m from S1 and one at least 30 m from S1 are
\* queued: the queue size is 3.
EverySampleAcceptedBeforeDeliveryWitness ==
    /\ NothingSent
    /\ Len(updateQueue) = 3
    /\ updateQueue = acceptedLog
    /\ ~ThirtyMetresApart(updateQueue[1], updateQueue[2])
    /\ ThirtyMetresApart(updateQueue[1], updateQueue[3])

\* The step is the call of startTracking number k.
StartTrackingCalled(k) == startCalls[k] = "idle" /\ startCalls'[k] # "idle"

\* C11, as stated: a startTracking call made after the call before it has
\* returned, with no stopTracking called, returns true at once.
SecondStartReturnsAtOnce ==
    [][\A k \in Calls :
            (/\ k > 1
             /\ startCalls[k - 1] \in {"true", "false"}
             /\ stopCalls = 0
             /\ StartTrackingCalled(k)) =>
                startCalls'[k] = "true"]_vars

\* C11, amended: a startTracking call returns true at once and changes
\* nothing exactly when isTracking is true at the call, which is so whenever
\* an earlier call has returned true and stopTracking was not called;
\* otherwise the call goes on to the permission check.  A call that has
\* returned does nothing more.
StartWhileActiveReturnsAtOnce ==
    /\ []((stopCalls = 0 /\ \E k \in Calls : startCalls[k] = "true")
            => isTracking)
    /\ [][\A k \in Calls :
            /\ StartTrackingCalled(k) =>
                  IF isTracking
                  THEN /\ startCalls'[k] = "true"
                       /\ UNCHANGED <<serviceVars, flushes, fgPermission,
                                      watchers, nextId, sinkLog, acceptedLog>>
                  ELSE startCalls'[k] = "hasPermission"
            /\ startCalls[k] \in {"true", "false"} =>
                  startCalls'[k] = startCalls[k]]_vars

\* A second startTracking call has returned true at once after the first
\* returned true: one position was fetched and one subscription is live.
StartWhileActiveReturnsAtOnceWitness ==
    /\ lastOp.op = "startTracking"
    /\ lastOp.res = "true"
    /\ stopCalls = 0
    /\ startCalls[1] = "true"
    /\ startCalls[2] = "true"
    /\ watchers = {1}
    /\ locationSubscription = 1
    /\ nextId = 2

\* C12: in every state isTracking is true if and only if a subscription
\* handle is stored.
ActiveIffSubscribed == isTracking <=> locationSubscription # 0

\* stopTracking has ended a session that a startTracking call opened while
\* another startTracking call is still under way.
ActiveIffSubscribedWitness ==
    /\ lastOp.op = "stopTracking"
    /\ ~isTracking
    /\ locationSubscription = 0
    /\ \E k \in Calls : startCalls[k] = "true"
    /\ \E k \in Calls : startCalls[k] \notin {"idle", "true", "false"}

\* processLocation has accepted the sample numbered id.
Accepted(id) == \E j \in DOMAIN acceptedLog : acceptedLog[j].id = id

\* The sink has answered success to a call made with the sample numbered id.
Delivered(id) ==
    \E c \in DOMAIN sinkLog : sinkLog[c].loc.id = id /\ sinkLog[c].res = "ok"

InQueue(id) == \E j \in DOMAIN updateQueue : updateQueue[j].id = id

PositionSourceFails(k) ==
    /\ startCalls[k] \in {"getCurrentPosition", "watchPosition"}
    /\ startCalls'[k] # startCalls[k]
    /\ lastOp'.res = "throws"

\* C14: when getCurrentPositionAsync or watchPositionAsync throws, the
\* startTracking call returns false and leaves isTracking, the handle and
\* the live subscriptions as they were; a call that returned false never
\* owns the handle or a subscription, and isTracking is true only when some
\* call has returned true.
NoPartialActivation ==
    /\ [](\A k \in Calls : startCalls[k] = "false" =>
              (locationSubscription # k /\ k \notin watchers))
    /\ [](isTracking => \E k \in Calls : startCalls[k] = "true")
    /\ [][\A k \in Calls : PositionSourceFails(k) =>
              /\ startCalls'[k] = "false"
              /\ UNCHANGED <<isTracking, locationSubscription, watchers>>]_vars

\* watchPositionAsync threw after the initial sample was queued: the call
\* returned false, isTracking is false and no handle is stored.
NoPartialActivationWitness ==
    /\ lastOp.op = "watchPosition"
    /\ lastOp.res = "throws"
    /\ startCalls[1] = "false"
    /\ updateQueue # <<>>
    /\ ~isTracking
    /\ locationSubscription = 0
    /\ watchers = {}

\* The startTracking call number k takes a step of its permission check.
PermissionStep(k) ==
    /\ startCalls[k] \in {"idle", "hasPermission", "requestForeground",
                          "requestBackground"}
    /\ startCalls'[k] # startCalls[k]

\* C15: a startTracking call that finds the foreground permission missing
\* asks for it, and when the request is denied the call returns false; no
\* step of the call up to there fetches a position, creates a subscription,
\* calls the sink or changes the queue, lastSentLocation or isTracking.
PermissionGate ==
    [][\A k \in Calls :
          /\ (startCalls[k] = "hasPermission" /\ PermissionStep(k)
                  /\ ~fgPermission) => startCalls'[k] = "requestForeground"
          /\ (startCalls[k] = "requestForeground" /\ PermissionStep(k)
                  /\ lastOp'.res = "denied") => startCalls'[k] = "false"
          /\ PermissionStep(k) =>
                  UNCHANGED <<serviceVars, flushes, watchers, nextId,
                              acceptedLog, sinkLog>>]_vars

\* The permission was not held and the request was denied: startTracking
\* returned false with no position fetched and nothing queued.
PermissionGateWitness ==
    /\ lastOp.op = "requestForeground"
    /\ lastOp.res = "denied"
    /\ ~fgPermission
    /\ startCalls[1] = "false"
    /\ nextId = 1
    /\ updateQueue = <<>>
    /\ lastSentLocation = NoLocation
    /\ ~isTracking
    /\ watchers = {}

\* C16: stopTracking leaves the queue, lastSentLocation, isFlushing, the
\* flush in progress and the sink calls as they are; when tracking is
\* active it removes the subscription, clears the handle and sets
\* isTracking to false, and otherwise it changes nothing.
StopTrackingFrame ==
    [][stopCalls' # stopCalls =>
          /\ UNCHANGED <<updateQueue, lastSentLocation, isFlushing, flushes,
                         sinkLog, acceptedLog, nowLog, startCalls>>
          /\ IF isTracking
             THEN /\ ~isTracking'
                  /\ locationSubscription' = 0
                  /\ watchers' = watchers \ {locationSubscription}
             ELSE UNCHANGED <<isTracking, locationSubscription,
                              watchers>>]_vars

\* stopTracking has ended an active session while a flush was waiting on
\* the sink: the queue and the flush are still there.
StopTrackingFrameWitness ==
    /\ lastOp.op = "stopTracking"
    /\ ~isTracking
    /\ locationSubscription = 0
    /\ \E k \in Calls : startCalls[k] = "true"
    /\ updateQueue # <<>>
    /\ isFlushing
    /\ Len(flushes) = 1

\* C17: whatever the sink answers, the flush ends or goes on without an
\* error reaching its caller: a startTracking call that awaits the flush of
\* its initial sample goes on to watchPositionAsync when the flush ends, no
\* other call changes course, and tracking state is untouched.
DeliveryFailureNotSurfaced ==
    [][lastOp'.op = "sinkReturns" =>
          /\ \A k \in Calls :
                startCalls'[k] # startCalls[k] =>
                    /\ startCalls[k] = "flushQueue"
                    /\ startCalls'[k] = "watchPosition"
                    /\ ~isFlushing'
          /\ \A k \in Calls :
                (startCalls[k] = "flushQueue" /\ ~isFlushing') =>
                    startCalls'[k] = "watchPosition"
          /\ UNCHANGED <<isTracking, locationSubscription, watchers>>]_vars

\* The sink failed for the initial sample of startTracking, which is still
\* queued, and the call has returned true: tracking is active.
DeliveryFailureNotSurfacedWitness ==
    /\ startCalls[1] = "true"
    /\ isTracking
    /\ Len(sinkLog) = 1
    /\ sinkLog[1].res = "error"
    /\ sinkLog[1].loc.src = "startTracking"
    /\ updateQueue = <<sinkLog[1].loc>>

\* C18: no step of getCurrentLocation changes the queue, lastSentLocation,
\* isTracking, the handle or isFlushing, calls the sink or asks for the
\* permission; without the foreground permission the call returns null,
\* and so it does when getCurrentPositionAsync throws.
GetCurrentLocationReadOnly ==
    [][locationCall' # locationCall =>
          /\ UNCHANGED <<serviceVars, flushes, sinkLog, acceptedLog, nowLog,
                         fgPermission, watchers, startCalls, stopCalls>>
          /\ (locationCall = "hasPermission" /\ ~fgPermission) =>
                locationCall' = "null"
          /\ (locationCall = "getCurrentPosition" /\ lastOp'.res = "throws") =>
                locationCall' = "null"
          /\ locationCall' = "sample" =>
                (locationCall = "getCurrentPosition" /\ fgPermission)]_vars

\* getCurrentLocation has returned a position while a flush was waiting on
\* the sink: the position is not queued and is not lastSentLocation.
GetCurrentLocationReadOnlyWitness ==
    /\ lastOp.op = "getCurrentLocation"
    /\ lastOp.res = "sample"
    /\ locationCall = "sample"
    /\ isFlushing
    /\ updateQueue # <<>>
    /\ lastOp.loc \notin Range(updateQueue)
    /\ lastSentLocation # lastOp.loc

\* C19: a sample that processLocation accepts while a flush waits on the
\* sink is appended to the queue and starts no second flush; when the sink
\* then answers success or 404 and samples are left, the same loop goes on
\* and calls the sink with the next sample of the queue.
MidFlushSamplePickedUp ==
    /\ [][(isFlushing /\ acceptedLog' # acceptedLog) =>
              /\ updateQueue' = Append(updateQueue, Last(acceptedLog'))
              /\ isFlushing'
              /\ flushes' = flushes
              /\ sinkLog' = sinkLog]_vars
    /\ [][((SinkAnswered("ok") \/ SinkAnswered("404"))
              /\ Len(updateQueue) >= 2) =>
              /\ updateQueue' = Tail(updateQueue)
              /\ isFlushing'
              /\ Len(flushes) = 1
              /\ Len(flushes') = 1
              /\ flushes'[1].owner = flushes[1].owner
              /\ flushes'[1].location = updateQueue[2]
              /\ Len(sinkLog') = Len(sinkLog) + 1
              /\ Last(sinkLog') =
                    [loc |-> updateQueue[2], res |-> "pending"]]_vars

\* The flush that a startTracking call started for its own sample, and
\* still awaits, is calling the sink with a sample that another operation
\* queued while the first call of the loop was in flight.
MidFlushSamplePickedUpWitness ==
    /\ Len(acceptedLog) = 2
    /\ Len(sinkLog) = 2
    /\ sinkLog[1] = [loc |-> acceptedLog[1], res |-> "ok"]
    /\ sinkLog[2] = [loc |-> acceptedLog[2], res |-> "pending"]
    /\ Len(flushes) = 1
    /\ flushes[1].location = acceptedLog[2]
    /\ flushes[1].owner # 0
    /\ startCalls[flushes[1].owner] = "flushQueue"
    /\ isFlushing

\* C20: isFlushing is true exactly while a flush loop waits on the sink;
\* an answer of the sink clears it when it is a failure other than 404 or
\* when it leaves the queue empty (after a success or a 404) and keeps it
\* otherwise; and, the sink answering every call, a flush in progress
\* always comes to its end.
FlushTerminates ==
    /\ [](isFlushing <=> flushes # <<>>)
    /\ [][lastOp'.op = "sinkReturns" =>
              IF lastOp'.res = "error"
              THEN ~isFlushing'
              ELSE isFlushing' <=> (Len(updateQueue) >= 2)]_vars
    /\ isFlushing ~> ~isFlushing

\* A flush has delivered one sample and ended on the 404 that emptied the
\* queue: the flag is cleared.
FlushTerminatesWitness ==
    /\ lastOp.op = "sinkReturns"
    /\ lastOp.res = "404"
    /\ Len(sinkLog) = 2
    /\ sinkLog[1].res = "ok"
    /\ updateQueue = <<>>
    /\ flushes = <<>>
    /\ ~isFlushing

\* C21: stopTracking leaves a flush in progress and its sink call as they
\* are, and an answer of the sink that comes when tracking was stopped is
\* handled as any other: on success the head is removed and the sample sent
\* becomes lastSentLocation, on 404 the head is removed, in both cases the
\* loop goes on while samples are left, and on another failure it ends.
StopDoesNotCancelFlush ==
    /\ [][stopCalls' # stopCalls =>
              UNCHANGED <<isFlushing, flushes, sinkLog, updateQueue>>]_vars
    /\ [][(lastOp'.op = "sinkReturns" /\ stopCalls > 0 /\ ~isTracking) =>
              /\ Len(flushes) = 1
              /\ lastOp'.loc = flushes[1].location
              /\ IF lastOp'.res = "error"
                 THEN /\ ~isFlushing'
                      /\ Len(updateQueue) <= QUEUE_LIMIT =>
                            updateQueue' = updateQueue
                 ELSE /\ updateQueue' = Tail(updateQueue)
                      /\ isFlushing' <=> (Len(updateQueue) >= 2)
                      /\ lastOp'.res = "ok" =>
                            lastSentLocation' = lastOp'.loc]_vars

\* stopTracking was called while the sink call for a sample of the
\* subscription was in flight; the sink has then answered success and the
\* sample is delivered and removed although tracking is stopped.
StopDoesNotCancelFlushWitness ==
    /\ lastOp.op = "sinkReturns"
    /\ lastOp.res = "ok"
    /\ lastOp.loc.src = "handleLocationUpdate"
    /\ stopCalls = 1
    /\ ~isTracking
    /\ watchers = {}
    /\ startCalls[1] = "true"
    /\ startCalls[2] = "idle"
    /\ Len(sinkLog) = 2
    /\ \A c \in DOMAIN sinkLog : sinkLog[c].res = "ok"
    /\ lastSentLocation = lastOp.loc
    /\ updateQueue = <<>>
    /\ ~isFlushing

\* C22: nothing retries by itself.  A failure other than 404 ends the flush
\* without a new sink call; while no flush is in progress a sink call starts
\* only in a step that accepts a sample or runs sendLocationNow; and a
\* reading that is taken but not accepted starts no flush and no sink call.
NoAutomaticRetry ==
    /\ [][(lastOp'.op = "sinkReturns" /\ lastOp'.res = "error") =>
              /\ ~isFlushing'
              /\ Len(sinkLog') = Len(sinkLog)]_vars
    /\ [][(~isFlushing /\ Len(sinkLog') > Len(sinkLog)) =>
              \/ Len(acceptedLog') > Len(acceptedLog)
              \/ Len(nowLog') > Len(nowLog)]_vars
    /\ [][(nextId' # nextId /\ acceptedLog' = acceptedLog
              /\ nowLog' = nowLog) =>
              UNCHANGED <<sinkLog, isFlushing, flushes, updateQueue>>]_vars

\* A flush ended on a failure with a sample left in the queue, and the
\* subscription has then reported a sample that was rejected: the queue
\* still waits, with no flush in progress and no sink call pending.
NoAutomaticRetryWitness ==
    /\ lastOp.op = "processLocation"
    /\ lastOp.loc \notin Range(acceptedLog)
    /\ Len(updateQueue) > 0
    /\ ~isFlushing
    /\ flushes = <<>>
    /\ \E c \in DOMAIN sinkLog : sinkLog[c].res = "error"
    /\ \A c \in DOMAIN sinkLog : sinkLog[c].res # "pending"

\* C23: whenever the sink answers success or 404 and flushQueue removes the
\* head of the queue, the head it removes is the sample the answered call
\* was made with.
ShiftRemovesSentSample ==
    [][(lastOp'.op = "sinkReturns" /\ lastOp'.res \in {"ok", "404"}) =>
          /\ Len(updateQueue) > 0
          /\ updateQueue[1] = lastOp'.loc
          /\ updateQueue' = Tail(updateQueue)]_vars

\* The sink has answered success for a sample while a sample of
\* sendLocationNow stood before it in the queue: the sample of
\* sendLocationNow is gone from the queue without a sink call, and the
\* answered sample is still queued.
ShiftRemovesOtherSample ==
    /\ lastOp.op = "sinkReturns"
    /\ lastOp.res = "ok"
    /\ InQueue(lastOp.loc.id)
    /\ \E n \in DOMAIN nowLog :
          /\ ~InQueue(nowLog[n].id)
          /\ \A c \in DOMAIN sinkLog : sinkLog[c].loc # nowLog[n]

\* C24: a sample of sendLocationNow leaves the queue only after the sink
\* was called with it, or in the trim of a queue of more than QUEUE_LIMIT
\* samples.
NowSampleLeavesQueueSent ==
    [][\A j \in DOMAIN updateQueue :
          (/\ updateQueue[j].src = "sendLocationNow"
           /\ updateQueue[j] \notin Range(updateQueue')) =>
              \/ \E c \in DOMAIN sinkLog : sinkLog[c].loc = updateQueue[j]
              \/ /\ lastOp'.op = "sinkReturns"
                 /\ lastOp'.res = "error"
                 /\ Len(updateQueue) > QUEUE_LIMIT]_vars

\* The queue has drained and no flush is in progress, and a sample of
\* sendLocationNow was never passed to the sink.
NowSampleLost ==
    /\ updateQueue = <<>>
    /\ ~isFlushing
    /\ flushes = <<>>
    /\ \E n \in DOMAIN nowLog :
          \A c \in DOMAIN sinkLog : sinkLog[c].loc # nowLog[n]

\* C25: a sample for which the sink has answered success is in no later
\* sink call.
NoCallAfterSuccess ==
    \A c, d \in DOMAIN sinkLog :
        (c < d /\ sinkLog[c].res = "ok") => sinkLog[d].loc # sinkLog[c].loc

\* The sink has answered success twice for the same sample.
DeliveredTwice ==
    \E c, d \in DOMAIN sinkLog :
        /\ c < d
        /\ sinkLog[c].loc = sinkLog[d].loc
        /\ sinkLog[c].res = "ok"
        /\ sinkLog[d].res = "ok"

\* C26: at most one position subscription is live, and it is the one
\* locationSubscription holds, which stopTracking removes.
SingleSubscription ==
    /\ Cardinality(watchers) <= 1
    /\ watchers \subseteq {locationSubscription}

\* Two startTracking calls overlapped and both subscribed: two
\* subscriptions are live and locationSubscription holds the second only.
TwoSubscriptions ==
    /\ isTracking
    /\ Cardinality(watchers) = 2
    /\ locationSubscription \in watchers
    /\ \A k \in watchers : startCalls[k] = "true"

\* C27: when stopTracking has returned, tracking is inactive, and a step
\* that is not the work of a startTracking call made after it neither
\* makes isActive() true nor adds a subscription.  The step that follows
\* the return of stopTracking directly is such a step: a new startTracking
\* call begins with its isTracking test and sets nothing.
StopTrackingIsFinal ==
    /\ [][lastOp'.op = "stopTracking" => ~isTracking']_vars
    /\ [][lastOp.op = "stopTracking" =>
              /\ ~isTracking'
              /\ watchers' \subseteq watchers]_vars

\* stopTracking has returned while the only startTracking call made so
\* far is suspended on watchPositionAsync.
StopDuringStart ==
    /\ lastOp.op = "stopTracking"
    /\ ~isTracking
    /\ watchers = {}
    /\ startCalls[1] = "watchPosition"
    /\ \A k \in Calls \ {1} : startCalls[k] = "idle"

\* C28: between the runs of the handlers, when no flush is in progress the
\* queue holds at most QUEUE_LIMIT samples.
QueueBoundedAtRest == ~isFlushing => Len(updateQueue) <= QUEUE_LIMIT

\* After an outage that left QUEUE_LIMIT samples queued, two more samples
\* were queued and nothing left the queue by a success or a 404: a flush
\* has ended on a failure with QUEUE_LIMIT + 2 samples queued, and the
\* queue is at rest with QUEUE_KEEP samples.
QueueBoundedAtRestWitness ==
    /\ ~isFlushing
    /\ flushes = <<>>
    /\ lastOp.op = "sinkReturns"
    /\ lastOp.res = "error"
    /\ Len(acceptedLog) + Len(nowLog) = 2
    /\ \A c \in DOMAIN sinkLog : sinkLog[c].res = "error"
    /\ Len(sinkLog) = 3
    /\ Len(updateQueue) = QUEUE_KEEP

\* sendLocationNow was last called with a sample X that is newer than
\* every accepted sample; the sink was called with X, every sink call from
\* that one on was answered with success, and the queue has drained.
DrainedAfterSendNow ==
    /\ nowLog # <<>>
    /\ updateQueue = <<>>
    /\ ~isFlushing
    /\ \A j \in DOMAIN acceptedLog : acceptedLog[j].id < Last(nowLog).id
    /\ \E c \in DOMAIN sinkLog :
          /\ sinkLog[c].loc = Last(nowLog)
          /\ \A d \in c .. Len(sinkLog) : sinkLog[d].res = "ok"

\* C29: after sendLocationNow(X) and a flush that drains the whole queue
\* with successes, lastSentLocation is X.
ForcedSampleIsBaseline ==
    DrainedAfterSendNow => lastSentLocation = Last(nowLog)

\* The queue has drained with successes after sendLocationNow(X), and
\* lastSentLocation is an older sample that was queued behind X.
OlderSampleIsBaseline ==
    /\ DrainedAfterSendNow
    /\ lastSentLocation \in Range(acceptedLog)
    /\ lastSentLocation.id < Last(nowLog).id
    /\ Last(sinkLog).loc = lastSentLocation

\* C30: an answer 404 of the sink leaves lastSentLocation as it was, so
\* that the distance filter accepts and rejects the same samples before
\* and after the discard.
NotFoundKeepsBaseline ==
    [][(lastOp'.op = "sinkReturns" /\ lastOp'.res = "404") =>
          /\ lastSentLocation' = lastSentLocation
          /\ \A r \in Readings :
                Accepts(Sample(nextId, r, "handleLocationUpdate"))
                    <=> Accepts(Sample(nextId, r, "handleLocationUpdate"))']_vars

\* A sample was delivered and is the baseline; the sink has then answered
\* 404 for a later sample 30 m or more away, and the baseline is still
\* the delivered sample.
NotFoundKeepsBaselineWitness ==
    /\ lastOp.op = "sinkReturns"
    /\ lastOp.res = "404"
    /\ lastSentLocation # NoLocation
    /\ Delivered(lastSentLocation.id)
    /\ lastSentLocation.id < lastOp.loc.id
    /\ ThirtyMetresApart(lastSentLocation, lastOp.loc)
    /\ ~Delivered(lastOp.loc.id)

=============================================================================
